---- MODULE Spec2Model ----
(***************************************************************************)
(* The agro-mark escrow program (programs/escrow) with the parts of the    *)
(* marketplace program it reads (MarketplaceState.authority, Product) and  *)
(* the two payment rails it calls (system-program lamport transfer,        *)
(* token-program transfer).                                                *)
(*                                                                         *)
(* One action is one instruction: Anchor's account validation of the       *)
(* #[derive(Accounts)] struct first, then the handler body.  An            *)
(* instruction that returns Err changes no account (the runtime discards   *)
(* the transaction), so only instructions that return Ok are steps; what   *)
(* an instruction returns, and what its handler has written by then, is    *)
(* the value of its <name>_run operator.                                   *)
(*                                                                         *)
(* u64 is modelled at WordBits bits instead of 64.  Lamport balances are   *)
(* the value above an account's own rent reserve; the rent the payer of    *)
(* an `init` account deposits is not modelled.  Of Product and             *)
(* MarketplaceState the model keeps the fields the escrow program or an    *)
(* instruction's checks read; the listing's texts and timestamps are left  *)
(* out.                                                                    *)
(***************************************************************************)
EXTENDS Integers, Sequences, FiniteSets, TLC

(* ------------------------------ bounds -------------------------------- *)

\* width of the modelled u64
WordBits == 16
\* largest timestamp the clock reaches
MaxTime == 1
\* Rent::minimum_balance(0), a value of the host, not of the program
RentMinimumBalance == 1

(* ------------------------------ values -------------------------------- *)

U64_MAX == 2^WordBits - 1

\* Option<T>: None is the empty set, Some(x) the singleton
None == {}
Some(x) == {x}
unwrap(o) == CHOOSE x \in o : TRUE

\* u64::wrapping_mul in place of checked_mul
wrapping_mul(a, b) == Some((a * b) % (U64_MAX + 1))

\* u64::checked_mul
checked_mul(a, b) == IF a * b > U64_MAX THEN None ELSE Some(a * b)

\* u64::checked_add
checked_add(a, b) == IF a + b > U64_MAX THEN None ELSE Some(a + b)

\* u64 `+`: the build decides whether overflow panics (overflow-checks) or
\* wraps; `wraps` is that choice, None is the panic
u64_add(a, b, wraps) ==
    IF a + b <= U64_MAX THEN Some(a + b)
    ELSE IF wraps THEN Some((a + b) % (U64_MAX + 1)) ELSE None

\* wallets (keypair accounts): whoever signs a transaction signs as one of these
Wallets == {"authority", "buyer", "seller"}

CurrencyType == {"SOL", "USDC", "USDT"}
\* the token mints behind the two token currencies
Mints == {"USDC", "USDT"}

EscrowStatus ==
    {"Created", "Funded", "Shipped", "Completed", "Disputed", "Cancelled", "Refunded"}

ProductStatus == {"Active", "SoldOut", "Deactivated", "Flagged"}

\* a String argument: its number of characters and its length in bytes
\* (String::len() counts bytes)
Str(chars, bytes) == [chars |-> chars, bytes |-> bytes]
len(s) == s.bytes

(* --------------------------- input domains ---------------------------- *)

Prices == {0, 50, U64_MAX}
Quantities == {0, 1, 3}
FeeRates == {250, 1001}
TrackingIds == {None, Some(Str(50, 50)), Some(Str(51, 51)), Some(Str(49, 52))}
Reasons == {Str(23, 23), Str(200, 200), Str(201, 201), Str(199, 203)}
\* what the buyer's wallet and token accounts hold at the start
InitialFunds == 400

(* --------------------------- derived addresses ------------------------ *)

\* Pubkey::find_program_address: the address of the seeds and its bump.
\* Addresses are strings, so a derived address is the text of its seeds.
CanonicalBump == 255

create_program_address(seeds, bump) ==
    seeds[1] \o "(" \o seeds[2] \o "," \o seeds[3] \o "," \o seeds[4] \o ")"
        \o (IF bump = CanonicalBump THEN "" ELSE "#" \o ToString(bump))

marketplace_address(authority) ==
    create_program_address(<<"marketplace", authority, "", "">>, CanonicalBump)

product_address(marketplace, seller, index) ==
    create_program_address(<<"product", marketplace, seller, ToString(index)>>, CanonicalBump)

escrow_address(marketplace, buyer, product) ==
    create_program_address(<<"escrow", marketplace, buyer, product>>, CanonicalBump)

\* the token account (holding account) of `owner` for `mint`
token_address(owner, mint) ==
    create_program_address(<<"token", owner, mint, "">>, CanonicalBump)

user_reputation_address(user) ==
    create_program_address(<<"user_reputation", user, "", "">>, CanonicalBump)

(* ------------------------------- state -------------------------------- *)

VARIABLES
    marketplaces,   \* address -> MarketplaceState
    products,       \* address -> Product
    escrows,        \* address -> Escrow
    lamports,       \* address -> lamports held
    tokens,         \* address -> TokenAccount [owner, mint, amount]
    reputations,    \* address -> UserReputation
    clock,          \* Clock::get().unix_timestamp
    result          \* the last instruction that returned Ok: its name, its
                    \* signer and its argument

vars == <<marketplaces, products, escrows, lamports, tokens, reputations, clock, result>>

Empty == [k \in {} |-> 0]

Put(f, k, v) == [x \in DOMAIN f \cup {k} |-> IF x = k THEN v ELSE f[x]]

Returned(op, signer, arg) == [op |-> op, signer |-> signer, arg |-> arg]

\* the holding accounts that exist at the start: the two parties' own
InitialTokenAccounts ==
    {[owner |-> w, mint |-> m, amount |-> IF w = "buyer" THEN InitialFunds ELSE 0] :
        w \in {"buyer", "seller"}, m \in Mints}

Init ==
    /\ marketplaces = Empty
    /\ products = Empty
    /\ escrows = Empty
    /\ lamports = [w \in Wallets |-> IF w = "buyer" THEN InitialFunds ELSE 0]
    /\ tokens = [a \in {token_address(t.owner, t.mint) : t \in InitialTokenAccounts} |->
                    CHOOSE t \in InitialTokenAccounts : token_address(t.owner, t.mint) = a]
    /\ reputations = Empty
    /\ clock = 0
    /\ result = Returned("none", "", "")

(* --------------------------- payment rails ---------------------------- *)

\* system_program::transfer(from, to, amount) under `signers`: `from` must
\* have signed and hold the amount.  `host_ok` stands for every other reason
\* the system program may refuse the transfer.  None is Err.
system_transfer(from, to, amount, signers, host_ok) ==
    IF from \in signers /\ from \in DOMAIN lamports /\ to \in DOMAIN lamports
       /\ lamports[from] >= amount /\ host_ok
    THEN Some([a \in DOMAIN lamports |->
                lamports[a] - (IF a = from THEN amount ELSE 0)
                            + (IF a = to THEN amount ELSE 0)])
    ELSE None

\* token::transfer(from, to, authority, amount): both holding accounts must
\* exist and be of one mint, `authority` must own `from` and have signed.
token_transfer(from, to, authority, amount, signers, host_ok) ==
    IF from # None /\ to # None /\ host_ok
    THEN LET f == unwrap(from)
             t == unwrap(to)
         IN IF /\ tokens[f].mint = tokens[t].mint
               /\ tokens[f].owner = authority
               /\ authority \in signers
               /\ tokens[f].amount >= amount
            THEN Some([a \in DOMAIN tokens |->
                        [tokens[a] EXCEPT !.amount =
                            @ - (IF a = f THEN amount ELSE 0)
                              + (IF a = t THEN amount ELSE 0)]])
            ELSE None
    ELSE None

\* what an instruction returns and the accounts as its handler leaves them
Ran(code, esc, lam, tok) ==
    [code |-> code, escrows |-> esc, lamports |-> lam, tokens |-> tok]

\* the instruction returned Ok and its writes are committed
Landed(r) ==
    /\ r.code = "Ok"
    /\ escrows' = r.escrows
    /\ lamports' = r.lamports
    /\ tokens' = r.tokens

(* --------------------------- marketplace ------------------------------ *)

initialize_marketplace_code(authority, fees_basis_points) ==
    IF marketplace_address(authority) \in DOMAIN marketplaces THEN "AccountInUse"
    ELSE IF ~(fees_basis_points <= 1000) THEN "FeesTooHigh"
    ELSE "Ok"

initialize_marketplace(authority, fee_destination, fees_basis_points) ==
    /\ initialize_marketplace_code(authority, fees_basis_points) = "Ok"
    /\ marketplaces' =
            Put(marketplaces, marketplace_address(authority),
                [authority |-> authority,
                 product_count |-> 0,
                 fees_basis_points |-> fees_basis_points,
                 fee_destination |-> fee_destination,
                 is_paused |-> FALSE,
                 bump |-> CanonicalBump])
    /\ result' = Returned("initialize_marketplace", authority, "")
    /\ UNCHANGED <<products, escrows, lamports, tokens, clock, reputations>>

create_product_code(price, quantity) ==
    IF ~(price > 0) THEN "InvalidPrice"
    ELSE IF ~(quantity > 0) THEN "InvalidQuantity"
    ELSE "Ok"

create_product(seller, marketplace, price, quantity, currency) ==
    /\ marketplace \in DOMAIN marketplaces
    /\ create_product_code(price, quantity) = "Ok"
    /\ products' =
            Put(products,
                product_address(marketplace, seller, marketplaces[marketplace].product_count),
                [marketplace |-> marketplace,
                 seller |-> seller,
                 price |-> price,
                 quantity |-> quantity,
                 currency |-> currency,
                 status |-> "Active",
                 bump |-> CanonicalBump])
    /\ marketplaces' = [marketplaces EXCEPT ![marketplace].product_count = @ + 1]
    /\ result' = Returned("create_product", seller, "")
    /\ UNCHANGED <<escrows, lamports, tokens, clock, reputations>>

\* get_product_index: "For simplicity, we return 0"
get_product_index(product_key) == 0

update_product_code(seller, product, price) ==
    IF seller # products[product].seller THEN "NotProductOwner"
    ELSE IF product # product_address(products[product].marketplace,
                                      products[product].seller,
                                      get_product_index(product))
         THEN "ConstraintSeeds"
    ELSE IF price # None /\ ~(unwrap(price) > 0) THEN "InvalidPrice"
    ELSE "Ok"

update_product(seller, product, price, quantity, status) ==
    /\ product \in DOMAIN products
    /\ update_product_code(seller, product, price) = "Ok"
    /\ products' =
            [products EXCEPT ![product] =
                [@ EXCEPT !.price = IF price # None THEN unwrap(price) ELSE @,
                          !.quantity = IF quantity # None THEN unwrap(quantity) ELSE @,
                          !.status = IF status # None THEN unwrap(status) ELSE @]]
    /\ result' = Returned("update_product", seller, "")
    /\ UNCHANGED <<marketplaces, escrows, lamports, tokens, clock, reputations>>

purchase_product_code(product, quantity) ==
    IF product # product_address(products[product].marketplace,
                                 products[product].seller,
                                 get_product_index(product))
    THEN "ConstraintSeeds"
    ELSE IF products[product].status # "Active" THEN "ProductNotActive"
    ELSE IF ~(products[product].quantity >= quantity) THEN "InsufficientInventory"
    ELSE "Ok"

\* "This function will be called by the escrow program": no instruction of
\* the escrow program calls it, it runs only when a transaction names it
purchase_product(buyer, product, quantity) ==
    /\ product \in DOMAIN products
    /\ purchase_product_code(product, quantity) = "Ok"
    /\ products' =
            [products EXCEPT ![product] =
                [@ EXCEPT !.quantity = @ - quantity,
                          !.status = IF products[product].quantity - quantity = 0
                                     THEN "SoldOut" ELSE @]]
    /\ result' = Returned("purchase_product", buyer, "")
    /\ UNCHANGED <<marketplaces, escrows, lamports, tokens, clock, reputations>>

(* ----------------------------- reputation ----------------------------- *)

initialize_user_reputation_code(user) ==
    IF user_reputation_address(user) \in DOMAIN reputations THEN "AccountInUse"
    ELSE "Ok"

initialize_user_reputation(user) ==
    /\ initialize_user_reputation_code(user) = "Ok"
    /\ reputations' =
            Put(reputations, user_reputation_address(user),
                [user |-> user,
                 total_rating |-> 0,
                 review_count |-> 0,
                 total_sales |-> 0,
                 total_purchases |-> 0,
                 is_verified |-> FALSE,
                 created_at |-> clock,
                 bump |-> CanonicalBump])
    /\ result' = Returned("initialize_user_reputation", user, "")
    /\ UNCHANGED <<marketplaces, products, escrows, lamports, tokens, clock>>

\* RecordTransactionCount: any signer, any `marketplace` account ("we're
\* just assuming the signer is authorized"); `count` is the counter the
\* instruction is about to increment, whose checked_add(1).unwrap() panics
\* at u64::MAX
record_transaction_count_code(user_reputation, count) ==
    IF user_reputation \notin DOMAIN reputations THEN "AccountNotInitialized"
    ELSE IF user_reputation # user_reputation_address(reputations[user_reputation].user)
         THEN "ConstraintSeeds"
    ELSE IF checked_add(count, 1) = None THEN "Panic"
    ELSE "Ok"

record_sale(authority, marketplace, user_reputation) ==
    /\ user_reputation \in DOMAIN reputations
    /\ record_transaction_count_code(user_reputation,
                                     reputations[user_reputation].total_sales) = "Ok"
    /\ reputations' = [reputations EXCEPT ![user_reputation].total_sales =
                            unwrap(checked_add(@, 1))]
    /\ result' = Returned("record_sale", authority, user_reputation)
    /\ UNCHANGED <<marketplaces, products, escrows, lamports, tokens, clock>>

record_purchase(authority, marketplace, user_reputation) ==
    /\ user_reputation \in DOMAIN reputations
    /\ record_transaction_count_code(user_reputation,
                                     reputations[user_reputation].total_purchases) = "Ok"
    /\ reputations' = [reputations EXCEPT ![user_reputation].total_purchases =
                            unwrap(checked_add(@, 1))]
    /\ result' = Returned("record_purchase", authority, user_reputation)
    /\ UNCHANGED <<marketplaces, products, escrows, lamports, tokens, clock>>

(* ------------------------------ escrow -------------------------------- *)

\* create_escrow with `init_if_needed` in place of `init`: an existing record
\* of the tuple is written over
create_escrow_run_init_if_needed(buyer, marketplace, product, quantity) ==
    LET key == escrow_address(marketplace, buyer, product)
        total_amount == checked_mul(products[product].price, quantity)
    IN IF ~(quantity > 0) THEN Ran("InvalidQuantity", escrows, lamports, tokens)
       ELSE IF total_amount = None THEN Ran("CalculationError", escrows, lamports, tokens)
       ELSE Ran("Ok",
                Put(escrows, key,
                    [marketplace |-> marketplace,
                     buyer |-> buyer,
                     seller |-> products[product].seller,
                     product |-> product,
                     quantity |-> quantity,
                     amount |-> unwrap(total_amount),
                     currency |-> products[product].currency,
                     status |-> "Created",
                     created_at |-> clock,
                     updated_at |-> clock,
                     bump |-> CanonicalBump]),
                IF key \in DOMAIN lamports THEN lamports ELSE Put(lamports, key, 0),
                tokens)

\* create_escrow with the product saturated at u64::MAX instead of rejected
create_escrow_run_saturating(buyer, marketplace, product, quantity) ==
    LET key == escrow_address(marketplace, buyer, product)
        total_amount == checked_mul(products[product].price, quantity)
    IN IF key \in DOMAIN escrows THEN Ran("AccountInUse", escrows, lamports, tokens)
       ELSE IF ~(quantity > 0) THEN Ran("InvalidQuantity", escrows, lamports, tokens)
       ELSE Ran("Ok",
                Put(escrows, key,
                    [marketplace |-> marketplace,
                     buyer |-> buyer,
                     seller |-> products[product].seller,
                     product |-> product,
                     quantity |-> quantity,
                     amount |-> IF total_amount = None THEN U64_MAX
                                ELSE unwrap(total_amount),
                     currency |-> products[product].currency,
                     status |-> "Created",
                     created_at |-> clock,
                     updated_at |-> clock,
                     bump |-> CanonicalBump]),
                Put(lamports, key, 0),
                tokens)

\* create_escrow without `require!(quantity > 0, ..)`
create_escrow_run_any_quantity(buyer, marketplace, product, quantity) ==
    LET key == escrow_address(marketplace, buyer, product)
        total_amount == checked_mul(products[product].price, quantity)
    IN IF key \in DOMAIN escrows THEN Ran("AccountInUse", escrows, lamports, tokens)
       ELSE IF total_amount = None THEN Ran("CalculationError", escrows, lamports, tokens)
       ELSE Ran("Ok",
                Put(escrows, key,
                    [marketplace |-> marketplace,
                     buyer |-> buyer,
                     seller |-> products[product].seller,
                     product |-> product,
                     quantity |-> quantity,
                     amount |-> unwrap(total_amount),
                     currency |-> products[product].currency,
                     status |-> "Created",
                     created_at |-> clock,
                     updated_at |-> clock,
                     bump |-> CanonicalBump]),
                Put(lamports, key, 0),
                tokens)

create_escrow_run(buyer, marketplace, product, quantity) ==
    LET key == escrow_address(marketplace, buyer, product)
        total_amount == checked_mul(products[product].price, quantity)
    IN IF key \in DOMAIN escrows THEN Ran("AccountInUse", escrows, lamports, tokens)
       ELSE IF ~(quantity > 0) THEN Ran("InvalidQuantity", escrows, lamports, tokens)
       ELSE IF total_amount = None THEN Ran("CalculationError", escrows, lamports, tokens)
       ELSE Ran("Ok",
                Put(escrows, key,
                    [marketplace |-> marketplace,
                     buyer |-> buyer,
                     seller |-> products[product].seller,
                     product |-> product,
                     quantity |-> quantity,
                     amount |-> unwrap(total_amount),
                     currency |-> products[product].currency,
                     status |-> "Created",
                     created_at |-> clock,
                     updated_at |-> clock,
                     bump |-> CanonicalBump]),
                Put(lamports, key, 0),
                tokens)

create_escrow(buyer, marketplace, product, quantity) ==
    /\ product \in DOMAIN products
    /\ Landed(create_escrow_run(buyer, marketplace, product, quantity))
    /\ result' = Returned("create_escrow", buyer, "")
    /\ UNCHANGED <<marketplaces, products, clock, reputations>>

\* the address of the seeds the release operations sign with: the record's
\* own marketplace, buyer, product and bump
escrow_signer(e) ==
    create_program_address(<<"escrow", escrows[e].marketplace, escrows[e].buyer,
                             escrows[e].product>>, escrows[e].bump)

\* CpiContext::new_with_signer(.., signer): the transaction's signer and the
\* address of the seeds the handler signs with
release_signers(caller, e) == {caller, escrow_signer(e)}

\* a status write without the refresh of updated_at
set_status_stale(esc, e, status) ==
    [esc EXCEPT ![e] = [@ EXCEPT !.status = status]]

\* a status write that also recomputes the amount from the product's price
set_status_repricing(esc, e, status) ==
    [esc EXCEPT ![e] = [@ EXCEPT !.status = status, !.updated_at = clock,
                                 !.amount = (products[esc[e].product].price
                                                * esc[e].quantity) % (U64_MAX + 1)]]

\* escrow.status = ..; escrow.updated_at = Clock::get()?.unix_timestamp
set_status(esc, e, status) ==
    [esc EXCEPT ![e] = [@ EXCEPT !.status = status, !.updated_at = clock]]

fund_escrow_run(buyer, e, escrow_vault, buyer_token_account, escrow_token_account, host_ok, wraps) ==
    IF escrows[e].buyer # buyer THEN Ran("UnauthorizedBuyer", escrows, lamports, tokens)
    ELSE IF ~(escrows[e].status = "Created")
         THEN Ran("InvalidEscrowState", escrows, lamports, tokens)
    ELSE IF escrows[e].currency = "SOL"
    THEN LET required_lamports == u64_add(escrows[e].amount, RentMinimumBalance, wraps)
             sent == system_transfer(buyer, escrow_vault, escrows[e].amount, {buyer}, host_ok)
         IN IF required_lamports = None
            THEN Ran("ProgramFailedToComplete", escrows, lamports, tokens)
            ELSE IF ~(lamports[buyer] >= unwrap(required_lamports))
                 THEN Ran("InsufficientFunds", escrows, lamports, tokens)
            ELSE IF sent = None THEN Ran("TransferFailed", escrows, lamports, tokens)
            ELSE Ran("Ok", set_status(escrows, e, "Funded"), unwrap(sent), tokens)
    ELSE LET sent == token_transfer(buyer_token_account, escrow_token_account, buyer,
                                    escrows[e].amount, {buyer}, host_ok)
         IN IF sent = None THEN Ran("TransferFailed", escrows, lamports, tokens)
            ELSE Ran("Ok", set_status(escrows, e, "Funded"), lamports, unwrap(sent))

fund_escrow(buyer, e, escrow_vault, buyer_token_account, escrow_token_account, host_ok, wraps) ==
    /\ e \in DOMAIN escrows
    /\ Landed(fund_escrow_run(buyer, e, escrow_vault, buyer_token_account,
                              escrow_token_account, host_ok, wraps))
    /\ result' = Returned("fund_escrow", buyer, "")
    /\ UNCHANGED <<marketplaces, products, clock, reputations>>

\* mark_as_shipped without the status requirement
mark_as_shipped_run_any_status(seller, e, tracking_id) ==
    IF escrows[e].seller # seller THEN Ran("UnauthorizedSeller", escrows, lamports, tokens)
    ELSE IF tracking_id # None /\ ~(len(unwrap(tracking_id)) <= 50)
         THEN Ran("TrackingIdTooLong", escrows, lamports, tokens)
    ELSE Ran("Ok", set_status(escrows, e, "Shipped"), lamports, tokens)

\* mark_as_shipped without the seller constraint and the seller check
\* mark_as_shipped paying the seller on shipment: what the derived address
\* of a SOL escrow holds, up to the amount, goes to the seller
mark_as_shipped_run_paying(seller, e, tracking_id) ==
    IF escrows[e].seller # seller THEN Ran("UnauthorizedSeller", escrows, lamports, tokens)
    ELSE IF ~(escrows[e].status = "Funded")
         THEN Ran("InvalidEscrowState", escrows, lamports, tokens)
    ELSE IF tracking_id # None /\ ~(len(unwrap(tracking_id)) <= 50)
         THEN Ran("TrackingIdTooLong", escrows, lamports, tokens)
    ELSE LET paid == IF escrows[e].currency = "SOL" /\ lamports[e] >= escrows[e].amount
                     THEN escrows[e].amount ELSE 0
         IN Ran("Ok", set_status(escrows, e, "Shipped"),
                [a \in DOMAIN lamports |->
                    lamports[a] - (IF a = e THEN paid ELSE 0)
                                + (IF a = seller THEN paid ELSE 0)],
                tokens)

mark_as_shipped_run_any_signer(seller, e, tracking_id) ==
    IF ~(escrows[e].status = "Funded")
    THEN Ran("InvalidEscrowState", escrows, lamports, tokens)
    ELSE IF tracking_id # None /\ ~(len(unwrap(tracking_id)) <= 50)
         THEN Ran("TrackingIdTooLong", escrows, lamports, tokens)
    ELSE Ran("Ok", set_status(escrows, e, "Shipped"), lamports, tokens)

mark_as_shipped_run(seller, e, tracking_id) ==
    IF escrows[e].seller # seller THEN Ran("UnauthorizedSeller", escrows, lamports, tokens)
    ELSE IF ~(escrows[e].status = "Funded")
         THEN Ran("InvalidEscrowState", escrows, lamports, tokens)
    ELSE IF ~(seller = escrows[e].seller)
         THEN Ran("UnauthorizedSeller", escrows, lamports, tokens)
    ELSE IF tracking_id # None /\ ~(len(unwrap(tracking_id)) <= 50)
         THEN Ran("TrackingIdTooLong", escrows, lamports, tokens)
    ELSE Ran("Ok", set_status(escrows, e, "Shipped"), lamports, tokens)

mark_as_shipped(seller, e, tracking_id) ==
    /\ e \in DOMAIN escrows
    /\ Landed(mark_as_shipped_run(seller, e, tracking_id))
    /\ result' = Returned("mark_as_shipped", seller, "")
    /\ UNCHANGED <<marketplaces, products, clock, reputations>>

\* the match on escrow.currency of the three release operations: escrow.amount
\* leaves escrow_vault (SOL) or escrow_token_account (tokens) for `to`
release(caller, e, escrow_vault, to, escrow_token_account, to_token_account, host_ok) ==
    IF escrows[e].currency = "SOL"
    THEN LET sent == system_transfer(escrow_vault, to, escrows[e].amount,
                                     release_signers(caller, e), host_ok)
         IN IF sent = None THEN Ran("TransferFailed", escrows, lamports, tokens)
            ELSE Ran("Ok", escrows, unwrap(sent), tokens)
    ELSE LET sent == token_transfer(escrow_token_account, to_token_account, escrow_vault,
                                    escrows[e].amount, release_signers(caller, e), host_ok)
         IN IF sent = None THEN Ran("TransferFailed", escrows, lamports, tokens)
            ELSE Ran("Ok", escrows, lamports, unwrap(sent))

\* confirm_delivery writing the status before the transfer, the transfer's
\* error returned with the write in place
confirm_delivery_run_early_write(buyer, seller, e, escrow_vault, escrow_token_account, seller_token_account, host_ok) ==
    IF escrows[e].buyer # buyer THEN Ran("UnauthorizedBuyer", escrows, lamports, tokens)
    ELSE IF escrows[e].seller # seller
         THEN Ran("InvalidEscrowAccount", escrows, lamports, tokens)
    ELSE IF ~(escrows[e].status = "Shipped")
         THEN Ran("InvalidEscrowState", escrows, lamports, tokens)
    ELSE LET paid == release(buyer, e, escrow_vault, seller, escrow_token_account,
                             seller_token_account, host_ok)
         IN Ran(paid.code, set_status(paid.escrows, e, "Completed"),
                paid.lamports, paid.tokens)

confirm_delivery_run(buyer, seller, e, escrow_vault, escrow_token_account, seller_token_account, host_ok) ==
    IF escrows[e].buyer # buyer THEN Ran("UnauthorizedBuyer", escrows, lamports, tokens)
    ELSE IF escrows[e].seller # seller
         THEN Ran("InvalidEscrowAccount", escrows, lamports, tokens)
    ELSE IF ~(escrows[e].status = "Shipped")
         THEN Ran("InvalidEscrowState", escrows, lamports, tokens)
    ELSE IF ~(buyer = escrows[e].buyer)
         THEN Ran("UnauthorizedBuyer", escrows, lamports, tokens)
    ELSE LET paid == release(buyer, e, escrow_vault, seller, escrow_token_account,
                             seller_token_account, host_ok)
         IN IF paid.code # "Ok" THEN paid
            ELSE Ran("Ok", set_status(paid.escrows, e, "Completed"),
                     paid.lamports, paid.tokens)

\* confirm_delivery notifying the reputation program on completion: the
\* seller's sale is recorded where the seller has a reputation account
confirm_delivery_with_hooks(buyer, seller, e, escrow_vault, escrow_token_account, seller_token_account, host_ok) ==
    /\ e \in DOMAIN escrows
    /\ Landed(confirm_delivery_run(buyer, seller, e, escrow_vault, escrow_token_account,
                                   seller_token_account, host_ok))
    /\ result' = Returned("confirm_delivery", buyer, "")
    /\ reputations' =
            IF user_reputation_address(seller) \in DOMAIN reputations
            THEN [reputations EXCEPT ![user_reputation_address(seller)].total_sales = @ + 1]
            ELSE reputations
    /\ UNCHANGED <<marketplaces, products, clock>>

confirm_delivery(buyer, seller, e, escrow_vault, escrow_token_account, seller_token_account, host_ok) ==
    /\ e \in DOMAIN escrows
    /\ Landed(confirm_delivery_run(buyer, seller, e, escrow_vault, escrow_token_account,
                                   seller_token_account, host_ok))
    /\ result' = Returned("confirm_delivery", buyer, "")
    /\ UNCHANGED <<marketplaces, products, clock, reputations>>

\* dispute_transaction open to any signer: neither the constraint on
\* DisputeTransaction.escrow nor the handler's check of the user
dispute_transaction_run_any_user(user, e, reason) ==
    IF ~(escrows[e].status = "Funded" \/ escrows[e].status = "Shipped")
    THEN Ran("InvalidEscrowState", escrows, lamports, tokens)
    ELSE IF ~(len(reason) <= 200)
         THEN Ran("DisputeReasonTooLong", escrows, lamports, tokens)
    ELSE Ran("Ok", set_status(escrows, e, "Disputed"), lamports, tokens)

\* dispute_transaction without the status requirement
dispute_transaction_run_any_status(user, e, reason) ==
    IF ~(escrows[e].buyer = user \/ escrows[e].seller = user)
    THEN Ran("Unauthorized", escrows, lamports, tokens)
    ELSE IF ~(len(reason) <= 200)
         THEN Ran("DisputeReasonTooLong", escrows, lamports, tokens)
    ELSE Ran("Ok", set_status(escrows, e, "Disputed"), lamports, tokens)

dispute_transaction_run(user, e, reason) ==
    IF ~(escrows[e].buyer = user \/ escrows[e].seller = user)
    THEN Ran("Unauthorized", escrows, lamports, tokens)
    ELSE IF ~(escrows[e].status = "Funded" \/ escrows[e].status = "Shipped")
         THEN Ran("InvalidEscrowState", escrows, lamports, tokens)
    ELSE IF ~(user = escrows[e].buyer \/ user = escrows[e].seller)
         THEN Ran("Unauthorized", escrows, lamports, tokens)
    ELSE IF ~(len(reason) <= 200)
         THEN Ran("DisputeReasonTooLong", escrows, lamports, tokens)
    ELSE Ran("Ok", set_status(escrows, e, "Disputed"), lamports, tokens)

dispute_transaction(user, e, reason) ==
    /\ e \in DOMAIN escrows
    /\ Landed(dispute_transaction_run(user, e, reason))
    /\ result' = Returned("dispute_transaction", user, "")
    /\ UNCHANGED <<marketplaces, products, clock, reputations>>

\* cancel_escrow without the buyer constraint on CancelEscrow.escrow
cancel_escrow_run_any_signer(buyer, e, escrow_vault, buyer_token_account, escrow_token_account, host_ok) ==
    IF ~(escrows[e].status = "Created" \/ escrows[e].status = "Funded")
    THEN Ran("InvalidEscrowState", escrows, lamports, tokens)
    ELSE LET paid == IF escrows[e].status = "Funded"
                     THEN release(buyer, e, escrow_vault, buyer, escrow_token_account,
                                  buyer_token_account, host_ok)
                     ELSE Ran("Ok", escrows, lamports, tokens)
         IN IF paid.code # "Ok" THEN paid
            ELSE Ran("Ok", set_status(paid.escrows, e, "Cancelled"),
                     paid.lamports, paid.tokens)

\* cancel_escrow that also accepts Shipped
cancel_escrow_run_after_shipping(buyer, e, escrow_vault, buyer_token_account, escrow_token_account, host_ok) ==
    IF escrows[e].buyer # buyer THEN Ran("UnauthorizedBuyer", escrows, lamports, tokens)
    ELSE IF ~(escrows[e].status \in {"Created", "Funded", "Shipped"})
         THEN Ran("InvalidEscrowState", escrows, lamports, tokens)
    ELSE LET paid == IF escrows[e].status # "Created"
                     THEN release(buyer, e, escrow_vault, buyer, escrow_token_account,
                                  buyer_token_account, host_ok)
                     ELSE Ran("Ok", escrows, lamports, tokens)
         IN IF paid.code # "Ok" THEN paid
            ELSE Ran("Ok", set_status(paid.escrows, e, "Cancelled"),
                     paid.lamports, paid.tokens)

cancel_escrow_run(buyer, e, escrow_vault, buyer_token_account, escrow_token_account, host_ok) ==
    IF escrows[e].buyer # buyer THEN Ran("UnauthorizedBuyer", escrows, lamports, tokens)
    ELSE IF ~(escrows[e].status = "Created" \/ escrows[e].status = "Funded")
         THEN Ran("InvalidEscrowState", escrows, lamports, tokens)
    ELSE LET paid == IF escrows[e].status = "Funded"
                     THEN release(buyer, e, escrow_vault, buyer, escrow_token_account,
                                  buyer_token_account, host_ok)
                     ELSE Ran("Ok", escrows, lamports, tokens)
         IN IF paid.code # "Ok" THEN paid
            ELSE Ran("Ok", set_status(paid.escrows, e, "Cancelled"),
                     paid.lamports, paid.tokens)

cancel_escrow(buyer, e, escrow_vault, buyer_token_account, escrow_token_account, host_ok) ==
    /\ e \in DOMAIN escrows
    /\ Landed(cancel_escrow_run(buyer, e, escrow_vault, buyer_token_account,
                                escrow_token_account, host_ok))
    /\ result' = Returned("cancel_escrow", buyer, "")
    /\ UNCHANGED <<marketplaces, products, clock, reputations>>

resolve_dispute_run(authority, marketplace, buyer, seller, e, escrow_vault, buyer_token_account, seller_token_account, escrow_token_account, favor_seller, host_ok) ==
    IF marketplaces[marketplace].authority # authority
    THEN Ran("UnauthorizedAuthority", escrows, lamports, tokens)
    ELSE IF escrows[e].buyer # buyer
         THEN Ran("InvalidEscrowAccount", escrows, lamports, tokens)
    ELSE IF escrows[e].seller # seller
         THEN Ran("InvalidEscrowAccount", escrows, lamports, tokens)
    ELSE IF ~(escrows[e].status = "Disputed")
         THEN Ran("InvalidEscrowState", escrows, lamports, tokens)
    ELSE IF ~(authority = marketplaces[marketplace].authority)
         THEN Ran("UnauthorizedAuthority", escrows, lamports, tokens)
    ELSE LET paid == release(authority, e, escrow_vault,
                             IF favor_seller THEN seller ELSE buyer,
                             escrow_token_account,
                             IF favor_seller THEN seller_token_account
                                             ELSE buyer_token_account,
                             host_ok)
         IN IF paid.code # "Ok" THEN paid
            ELSE Ran("Ok",
                     set_status(paid.escrows, e,
                                IF favor_seller THEN "Completed" ELSE "Refunded"),
                     paid.lamports, paid.tokens)

resolve_dispute(authority, marketplace, buyer, seller, e, escrow_vault, buyer_token_account, seller_token_account, escrow_token_account, favor_seller, host_ok) ==
    /\ e \in DOMAIN escrows
    /\ marketplace \in DOMAIN marketplaces
    /\ Landed(resolve_dispute_run(authority, marketplace, buyer, seller, e, escrow_vault,
                                  buyer_token_account, seller_token_account,
                                  escrow_token_account, favor_seller, host_ok))
    /\ result' = Returned("resolve_dispute", authority,
                          IF favor_seller THEN "favor_seller" ELSE "favor_buyer")
    /\ UNCHANGED <<marketplaces, products, clock, reputations>>

(* ---------------------------- environment ----------------------------- *)

\* the token program's account creation: anyone may provision the holding
\* account of an escrow's derived address for a mint
create_token_account(owner, mint) ==
    /\ owner \in DOMAIN escrows
    /\ escrows[owner].currency # "SOL"
    /\ token_address(owner, mint) \notin DOMAIN tokens
    /\ tokens' = Put(tokens, token_address(owner, mint),
                     [owner |-> owner, mint |-> mint, amount |-> 0])
    /\ result' = Returned("create_token_account", "", "")
    /\ UNCHANGED <<marketplaces, products, escrows, lamports, clock, reputations>>

\* time passes between transactions
advance_clock ==
    /\ clock < MaxTime
    /\ clock' = clock + 1
    /\ UNCHANGED <<marketplaces, products, escrows, lamports, tokens, reputations, result>>

(* ------------------------ the calls enumerated ------------------------ *)

\* who opens a marketplace: the authority, and a party opening one of its own
Founders == {"authority", "seller"}

\* the marketplace the products are listed on, and the listings enumerated:
\* its first
Listing == marketplace_address("authority")
ListedIndexes == {0}

\* Option<Account<TokenAccount>>: the holding account of `owner` for `mint`
\* when it exists, absent otherwise
holding(owner, mint) ==
    IF token_address(owner, mint) \in DOMAIN tokens
    THEN Some(token_address(owner, mint)) ELSE None

\* escrow_vault as a caller passes it: the escrow's derived address or the
\* caller's own wallet
Vaults(e, caller) == {e, caller}

\* whose holding account a caller passes where a party's is expected: the
\* buyer's or the seller's
Parties(e) == {escrows[e].buyer, escrows[e].seller}

Next ==
    \/ \E a \in Founders, f \in FeeRates : initialize_marketplace(a, a, f)
    \/ \E p \in Prices, q \in {0, 5}, c \in CurrencyType :
            /\ Listing \in DOMAIN marketplaces
            /\ marketplaces[Listing].product_count \in ListedIndexes
            /\ create_product("seller", Listing, p, q, c)
    \/ \E s \in Wallets, k \in DOMAIN products, p \in {None, Some(0), Some(100)} :
            update_product(s, k, p, None, None)
    \/ \E k \in DOMAIN products, q \in Quantities :
            create_escrow("buyer", products[k].marketplace, k, q)
    \/ \E b \in Wallets, e \in DOMAIN escrows, m \in Mints, w \in BOOLEAN :
        \E v \in Vaults(e, b) :
            fund_escrow(b, e, v, holding(b, m), holding(v, m), TRUE, w)
    \/ \E s \in Wallets, e \in DOMAIN escrows, t \in TrackingIds : mark_as_shipped(s, e, t)
    \/ \E b \in Wallets, s \in Wallets, e \in DOMAIN escrows, m \in Mints :
        \E v \in Vaults(e, b), to \in {s, b} :
            confirm_delivery(b, s, e, v, holding(v, m), holding(to, m), TRUE)
    \/ \E u \in Wallets, e \in DOMAIN escrows, r \in Reasons : dispute_transaction(u, e, r)
    \/ \E b \in Wallets, e \in DOMAIN escrows, m \in Mints :
        \E v \in Vaults(e, b) :
            cancel_escrow(b, e, v, holding(b, m), holding(v, m), TRUE)
    \/ \E a \in Wallets, k \in DOMAIN marketplaces, e \in DOMAIN escrows, m \in Mints,
          fs \in BOOLEAN :
        \E v \in Vaults(e, a), bt \in Parties(e), st \in Parties(e) :
            resolve_dispute(a, k, escrows[e].buyer, escrows[e].seller, e, v,
                            holding(bt, m), holding(st, m), holding(v, m), fs, TRUE)
    \/ \E e \in DOMAIN escrows, m \in Mints : create_token_account(e, m)
    \/ advance_clock

Spec == Init /\ [][Next]_vars

(* ------------- the escrow beside the programs it works with ----------- *)

\* how many sales and purchases are recorded for a user
MaxRecorded == 1

\* the lifecycle of SOL and USDC escrows with the accounts each instruction
\* expects, and between its steps the calls of the marketplace and the
\* reputation program that change what those programs hold
NextReputation ==
    \/ initialize_marketplace("authority", "authority", 250)
    \/ \E c \in {"SOL", "USDC"} :
            /\ Listing \in DOMAIN marketplaces
            /\ marketplaces[Listing].product_count \in ListedIndexes
            /\ create_product("seller", Listing, 50, 5, c)
    \/ \E k \in DOMAIN products : update_product("seller", k, Some(100), None, None)
    \/ \E k \in DOMAIN products, q \in {2, 5} : purchase_product("buyer", k, q)
    \/ \E k \in DOMAIN products : create_escrow("buyer", products[k].marketplace, k, 1)
    \/ \E e \in DOMAIN escrows :
            fund_escrow("buyer", e, e, holding("buyer", "USDC"), holding(e, "USDC"),
                        TRUE, FALSE)
    \/ \E e \in DOMAIN escrows : mark_as_shipped("seller", e, None)
    \/ \E e \in DOMAIN escrows :
            confirm_delivery("buyer", "seller", e, e, holding(e, "USDC"),
                             holding("seller", "USDC"), TRUE)
    \/ \E u \in {"buyer", "seller"}, e \in DOMAIN escrows :
            dispute_transaction(u, e, Str(23, 23))
    \/ \E e \in DOMAIN escrows :
            cancel_escrow("buyer", e, e, holding("buyer", "USDC"), holding(e, "USDC"), TRUE)
    \/ \E e \in DOMAIN escrows, fs \in BOOLEAN :
            resolve_dispute("authority", Listing, "buyer", "seller", e, e,
                            holding("buyer", "USDC"), holding("seller", "USDC"),
                            holding(e, "USDC"), fs, TRUE)
    \/ \E e \in DOMAIN escrows : create_token_account(e, "USDC")
    \/ \E u \in {"buyer", "seller"} : initialize_user_reputation(u)
    \/ \E r \in DOMAIN reputations :
            /\ reputations[r].total_sales < MaxRecorded
            /\ record_sale("authority", Listing, r)
    \/ \E r \in DOMAIN reputations :
            /\ reputations[r].total_purchases < MaxRecorded
            /\ record_purchase("authority", Listing, r)

SpecReputation == Init /\ [][NextReputation]_vars

(* ------------------------------ claims -------------------------------- *)

Terminal == {"Completed", "Cancelled", "Refunded"}
Holding == {"Funded", "Shipped", "Disputed"}

\* what the derived custody address of escrow e holds in the escrow's
\* currency, in the given ledgers: its lamports, or the amount of its holding
\* account for the currency's mint
custody_in(esc, lam, tok, e) ==
    IF esc[e].currency = "SOL" THEN lam[e]
    ELSE IF token_address(e, esc[e].currency) \in DOMAIN tok
         THEN tok[token_address(e, esc[e].currency)].amount
         ELSE 0

custody_balance(e) == custody_in(escrows, lamports, tokens, e)

\* what wallet w holds in currency c, in the given ledgers
balance_in(lam, tok, w, c) ==
    IF c = "SOL" THEN lam[w]
    ELSE IF token_address(w, c) \in DOMAIN tok THEN tok[token_address(w, c)].amount
         ELSE 0

\* escrow_vault of a call: the derived address or the signer's wallet
vault_arg(e, signer, derived) == IF derived THEN e ELSE signer

\* a call left every account as it was
Untouched(r) == r.escrows = escrows /\ r.lamports = lamports /\ r.tokens = tokens

\* the codes an escrow instruction returns when it fails
EscrowError ==
    {"InvalidQuantity", "CalculationError", "InvalidEscrowState", "InsufficientFunds",
     "UnauthorizedBuyer", "UnauthorizedSeller", "UnauthorizedAuthority", "Unauthorized",
     "TrackingIdTooLong", "DisputeReasonTooLong", "InvalidEscrowAccount"}
HostError == {"TransferFailed", "ProgramFailedToComplete", "AccountInUse"}

FailsClean(r) == r.code # "Ok" => r.code \in EscrowError \cup HostError /\ Untouched(r)

\* the calls of the six lifecycle instructions on escrow e: each with whether
\* its accounts pass the account validation (`valid`) and the code it returns
Calls(e) ==
    {[op |-> "fund_escrow", valid |-> b = escrows[e].buyer,
      code |-> fund_escrow_run(b, e, vault_arg(e, b, d), holding(b, m),
                               holding(vault_arg(e, b, d), m), h, w).code] :
        b \in Wallets, d \in BOOLEAN, m \in Mints, h \in BOOLEAN, w \in BOOLEAN}
    \cup
    {[op |-> "mark_as_shipped", valid |-> s = escrows[e].seller,
      code |-> mark_as_shipped_run(s, e, t).code] : s \in Wallets, t \in TrackingIds}
    \cup
    {[op |-> "confirm_delivery", valid |-> b = escrows[e].buyer /\ s = escrows[e].seller,
      code |-> confirm_delivery_run(b, s, e, vault_arg(e, b, d),
                                    holding(vault_arg(e, b, d), m), holding(s, m), h).code] :
        b \in Wallets, s \in Wallets, d \in BOOLEAN, m \in Mints, h \in BOOLEAN}
    \cup
    {[op |-> "dispute_transaction", valid |-> u \in {escrows[e].buyer, escrows[e].seller},
      code |-> dispute_transaction_run(u, e, r).code] : u \in Wallets, r \in Reasons}
    \cup
    {[op |-> "cancel_escrow", valid |-> b = escrows[e].buyer,
      code |-> cancel_escrow_run(b, e, vault_arg(e, b, d), holding(b, m),
                                 holding(vault_arg(e, b, d), m), h).code] :
        b \in Wallets, d \in BOOLEAN, m \in Mints, h \in BOOLEAN}
    \cup
    {[op |-> "resolve_dispute",
      valid |-> a = marketplaces[k].authority /\ b = escrows[e].buyer,
      code |-> resolve_dispute_run(a, k, b, escrows[e].seller, e, vault_arg(e, a, d),
                                   holding(b, m), holding(escrows[e].seller, m),
                                   holding(vault_arg(e, a, d), m), fs, h).code] :
        a \in Wallets, k \in DOMAIN marketplaces, b \in {"buyer", "seller"},
        d \in BOOLEAN, m \in Mints, fs \in BOOLEAN, h \in BOOLEAN}

(* C1: every step changes an escrow's status only along an edge of the     *)
(* graph, taken by the edge's own operation (resolve_dispute to Completed   *)
(* with favor_seller, to Refunded without), and a record that appears      *)
(* starts in Created.                                                      *)
Edges ==
    {<<"fund_escrow", "", "Created", "Funded">>,
     <<"mark_as_shipped", "", "Funded", "Shipped">>,
     <<"confirm_delivery", "", "Shipped", "Completed">>,
     <<"dispute_transaction", "", "Funded", "Disputed">>,
     <<"dispute_transaction", "", "Shipped", "Disputed">>,
     <<"cancel_escrow", "", "Created", "Cancelled">>,
     <<"cancel_escrow", "", "Funded", "Cancelled">>,
     <<"resolve_dispute", "favor_seller", "Disputed", "Completed">>,
     <<"resolve_dispute", "favor_buyer", "Disputed", "Refunded">>}

C1_StatusFollowsGraph ==
    [][\A e \in DOMAIN escrows' :
        IF e \notin DOMAIN escrows
        THEN escrows'[e].status = "Created" /\ result'.op = "create_escrow"
        ELSE escrows'[e].status # escrows[e].status =>
                <<result'.op, result'.arg, escrows[e].status, escrows'[e].status>> \in Edges]_vars

\* a dispute has been resolved for the buyer: Created, Funded, Disputed and
\* Refunded have all been passed through
C1_Witness ==
    \E e \in DOMAIN escrows :
        escrows[e].status = "Refunded" /\ result.op = "resolve_dispute"

(* C2: the derived custody address of every escrow holds exactly amount    *)
(* while the status is Funded, Shipped or Disputed, and nothing otherwise.  *)
C2_CustodyMatchesStatus ==
    \A e \in DOMAIN escrows :
        custody_balance(e) = IF escrows[e].status \in Holding THEN escrows[e].amount ELSE 0

(* C3: a lifecycle call that returns an error has written nothing: the     *)
(* records and every balance are as before the call; and a call from a      *)
(* status outside the operation's precondition, by the wrong signer, with   *)
(* an oversized text, from a source that does not hold the amount, or       *)
(* whose transfer the host refuses, does return an error.                   *)
C3_Fund(e) ==
    \A b \in Wallets, d \in BOOLEAN, m \in Mints, h \in BOOLEAN, w \in BOOLEAN :
        LET v == vault_arg(e, b, d)
            r == fund_escrow_run(b, e, v, holding(b, m), holding(v, m), h, w)
            short == IF escrows[e].currency = "SOL" THEN lamports[b] < escrows[e].amount
                     ELSE \/ holding(b, m) = None
                          \/ tokens[unwrap(holding(b, m))].amount < escrows[e].amount
        IN /\ FailsClean(r)
           /\ (escrows[e].status # "Created" \/ b # escrows[e].buyer \/ ~h \/ short)
                => r.code # "Ok"

C3_Mark(e) ==
    \A s \in Wallets, t \in TrackingIds :
        LET r == mark_as_shipped_run(s, e, t)
        IN /\ FailsClean(r)
           /\ (\/ escrows[e].status # "Funded"
               \/ s # escrows[e].seller
               \/ (t # None /\ len(unwrap(t)) > 50)) => r.code # "Ok"

C3_Confirm(e) ==
    \A b \in Wallets, s \in Wallets, d \in BOOLEAN, m \in Mints, h \in BOOLEAN :
      \A to \in {s, b} :
        LET v == vault_arg(e, b, d)
            r == confirm_delivery_run(b, s, e, v, holding(v, m), holding(to, m), h)
        IN /\ FailsClean(r)
           /\ (escrows[e].status # "Shipped" \/ b # escrows[e].buyer \/ ~h) => r.code # "Ok"

C3_Dispute(e) ==
    \A u \in Wallets, t \in Reasons :
        LET r == dispute_transaction_run(u, e, t)
        IN /\ FailsClean(r)
           /\ (\/ ~(escrows[e].status \in {"Funded", "Shipped"})
               \/ ~(u \in {escrows[e].buyer, escrows[e].seller})
               \/ len(t) > 200) => r.code # "Ok"

C3_Cancel(e) ==
    \A b \in Wallets, d \in BOOLEAN, m \in Mints, h \in BOOLEAN :
        LET v == vault_arg(e, b, d)
            r == cancel_escrow_run(b, e, v, holding(b, m), holding(v, m), h)
        IN /\ FailsClean(r)
           /\ (\/ ~(escrows[e].status \in {"Created", "Funded"})
               \/ b # escrows[e].buyer
               \/ (escrows[e].status = "Funded" /\ ~h)) => r.code # "Ok"

C3_Resolve(e) ==
    \A a \in Wallets, k \in DOMAIN marketplaces, d \in BOOLEAN, m \in Mints,
       fs \in BOOLEAN, h \in BOOLEAN :
        LET v == vault_arg(e, a, d)
            r == resolve_dispute_run(a, k, escrows[e].buyer, escrows[e].seller, e, v,
                                     holding(escrows[e].buyer, m),
                                     holding(escrows[e].seller, m), holding(v, m), fs, h)
        IN /\ FailsClean(r)
           /\ (\/ escrows[e].status # "Disputed"
               \/ a # marketplaces[k].authority
               \/ ~h) => r.code # "Ok"

C3_FailureChangesNothing ==
    \A e \in DOMAIN escrows :
        /\ C3_Fund(e) /\ C3_Mark(e) /\ C3_Confirm(e)
        /\ C3_Dispute(e) /\ C3_Cancel(e) /\ C3_Resolve(e)

\* funds are in custody, the goods are shipped, and the buyer's confirmation
\* fails on its transfer
C3_Witness ==
    \E e \in DOMAIN escrows :
        /\ escrows[e].status = "Shipped"
        /\ custody_balance(e) = escrows[e].amount
        /\ escrows[e].amount > 0
        /\ confirm_delivery_run(escrows[e].buyer, escrows[e].seller, e, e,
                                holding(e, "USDC"), holding(escrows[e].seller, "USDC"),
                                FALSE).code = "TransferFailed"

C4_TerminalCallsFail ==
    \A e \in DOMAIN escrows :
        escrows[e].status \in Terminal =>
            \A c \in Calls(e) :
                /\ c.code # "Ok"
                /\ c.valid => c.code = "InvalidEscrowState"

C4_TerminalIsFrozen ==
    \A e \in DOMAIN escrows :
        escrows[e].status \in Terminal =>
            /\ e \in DOMAIN escrows'
            /\ escrows'[e] = escrows[e]
            /\ lamports'[e] = lamports[e]
            /\ \A a \in DOMAIN tokens :
                tokens[a].owner = e => a \in DOMAIN tokens' /\ tokens'[a] = tokens[a]

C5_OnlyBuyerOrAuthorityReleases ==
    [][\A e \in DOMAIN escrows :
        (/\ e \in DOMAIN escrows'
         /\ custody_in(escrows', lamports', tokens', e) < custody_balance(e)
         /\ balance_in(lamports', tokens', escrows[e].seller, escrows[e].currency)
              > balance_in(lamports, tokens, escrows[e].seller, escrows[e].currency))
        => \/ result'.op = "confirm_delivery" /\ result'.signer = escrows[e].buyer
           \/ /\ result'.op = "resolve_dispute" /\ result'.arg = "favor_seller"
              /\ escrows[e].marketplace \in DOMAIN marketplaces
              /\ result'.signer = marketplaces[escrows[e].marketplace].authority]_vars

(* C6: a create_escrow that succeeds for a product of price p with         *)
(* quantity q stores amount p * q (the product of the integers), quantity   *)
(* q, status Created, the caller as buyer, and the product's seller and     *)
(* currency.                                                                *)
C6_CreatedRecord ==
    \A k \in DOMAIN products, b \in Wallets, q \in Quantities :
        LET r == create_escrow_run(b, products[k].marketplace, k, q)
            key == escrow_address(products[k].marketplace, b, k)
        IN r.code = "Ok" =>
            /\ key \in DOMAIN r.escrows
            /\ r.escrows[key].amount = products[k].price * q
            /\ r.escrows[key].quantity = q
            /\ r.escrows[key].status = "Created"
            /\ r.escrows[key].buyer = b
            /\ r.escrows[key].seller = products[k].seller
            /\ r.escrows[key].currency = products[k].currency
            /\ r.escrows[key].product = k

\* three units have just been ordered
C6_Witness ==
    \E e \in DOMAIN escrows :
        /\ result.op = "create_escrow"
        /\ escrows[e].quantity = 3
        /\ escrows[e].amount = 3 * products[escrows[e].product].price

(* C7, as stated: whenever price * quantity exceeds the largest u64,        *)
(* create_escrow fails with CalculationError and stores nothing.            *)
C7_OverflowIsCalculationError ==
    \A k \in DOMAIN products, b \in Wallets, q \in Quantities :
        LET r == create_escrow_run(b, products[k].marketplace, k, q)
        IN products[k].price * q > U64_MAX =>
            r.code = "CalculationError" /\ r.escrows = escrows

(* C7, amended: whenever price * quantity exceeds the largest u64,          *)
(* create_escrow fails and stores nothing, with CalculationError when the   *)
(* (marketplace, buyer, product) tuple has no record yet (when it has one   *)
(* the account initialisation fails first); and a record that appears holds *)
(* the product of the integers, never a truncated or wrapped one.           *)
C7_OverflowRejected ==
    \A k \in DOMAIN products, b \in Wallets, q \in Quantities :
        LET r == create_escrow_run(b, products[k].marketplace, k, q)
        IN products[k].price * q > U64_MAX =>
            /\ r.code # "Ok"
            /\ r.escrows = escrows
            /\ escrow_address(products[k].marketplace, b, k) \notin DOMAIN escrows
                => r.code = "CalculationError"

C7_StoredAmountIsExact ==
    \A e \in DOMAIN escrows' :
        e \notin DOMAIN escrows =>
            /\ escrows'[e].amount = products[escrows'[e].product].price * escrows'[e].quantity
            /\ escrows'[e].amount <= U64_MAX

C7_NoOverflowStored == [](C7_OverflowRejected) /\ [][C7_StoredAmountIsExact]_vars

\* an order whose total overflows is refused
C7_Witness ==
    \E k \in DOMAIN products :
        /\ products[k].price * 3 > U64_MAX
        /\ create_escrow_run("buyer", products[k].marketplace, k, 3).code = "CalculationError"

(* C8, as stated: create_escrow with quantity 0 fails with InvalidQuantity  *)
(* and stores nothing, for every product.                                   *)
C8_ZeroIsInvalidQuantity ==
    \A k \in DOMAIN products, b \in Wallets :
        LET r == create_escrow_run(b, products[k].marketplace, k, 0)
        IN r.code = "InvalidQuantity" /\ Untouched(r)

(* C8, amended: create_escrow with quantity 0 fails and stores nothing,     *)
(* for every product, with InvalidQuantity when the (marketplace, buyer,    *)
(* product) tuple has no record yet (when it has one the account            *)
(* initialisation fails first).                                             *)
C8_ZeroQuantityRejected ==
    \A k \in DOMAIN products, b \in Wallets :
        LET r == create_escrow_run(b, products[k].marketplace, k, 0)
        IN /\ r.code # "Ok"
           /\ Untouched(r)
           /\ escrow_address(products[k].marketplace, b, k) \notin DOMAIN escrows
                => r.code = "InvalidQuantity"

\* a product is listed, nothing is ordered yet, and an order of 0 is refused
C8_Witness ==
    \E k \in DOMAIN products :
        /\ escrows = Empty
        /\ create_escrow_run("buyer", products[k].marketplace, k, 0).code = "InvalidQuantity"

(* C9: no step changes an existing escrow's amount, currency, quantity,    *)
(* marketplace, buyer, seller, product or created_at, whatever becomes of   *)
(* the product's price.                                                     *)
C9_CreationFieldsAreFixed ==
    [][\A e \in DOMAIN escrows :
        /\ e \in DOMAIN escrows'
        /\ escrows'[e].amount = escrows[e].amount
        /\ escrows'[e].currency = escrows[e].currency
        /\ escrows'[e].quantity = escrows[e].quantity
        /\ escrows'[e].marketplace = escrows[e].marketplace
        /\ escrows'[e].buyer = escrows[e].buyer
        /\ escrows'[e].seller = escrows[e].seller
        /\ escrows'[e].product = escrows[e].product
        /\ escrows'[e].created_at = escrows[e].created_at]_vars

\* the price was changed after the order, and the escrow went on to complete
C9_Witness ==
    \E e \in DOMAIN escrows :
        /\ escrows[e].status = "Completed"
        /\ escrows[e].amount # products[escrows[e].product].price * escrows[e].quantity

(* C10: mark_as_shipped signed by anyone but the record's seller fails,    *)
(* whatever the status (Funded included), and leaves the status as it was.  *)
C10_OnlySellerShips ==
    \A e \in DOMAIN escrows :
        \A s \in Wallets \ {escrows[e].seller}, t \in TrackingIds :
            LET r == mark_as_shipped_run(s, e, t)
            IN r.code # "Ok" /\ r.escrows[e].status = escrows[e].status

\* the escrow is funded and the buyer's attempt to mark it shipped is refused
C10_Witness ==
    \E e \in DOMAIN escrows :
        /\ escrows[e].status = "Funded"
        /\ mark_as_shipped_run(escrows[e].buyer, e, None).code = "UnauthorizedSeller"

(* C11: fund_escrow, confirm_delivery and cancel_escrow signed by anyone    *)
(* but the record's buyer fail, in every status, and leave the record and   *)
(* every balance as they were.                                              *)
C11_OnlyBuyerFundsConfirmsCancels ==
    \A e \in DOMAIN escrows :
        \A b \in Wallets \ {escrows[e].buyer}, d \in BOOLEAN, m \in Mints :
            LET v == vault_arg(e, b, d)
            IN /\ \A w \in BOOLEAN :
                    LET r == fund_escrow_run(b, e, v, holding(b, m), holding(v, m), TRUE, w)
                    IN r.code # "Ok" /\ Untouched(r)
               /\ \A s \in Wallets : \A to \in {s, b} :
                    LET r == confirm_delivery_run(b, s, e, v, holding(v, m), holding(to, m),
                                                  TRUE)
                    IN r.code # "Ok" /\ Untouched(r)
               /\ LET r == cancel_escrow_run(b, e, v, holding(b, m), holding(v, m), TRUE)
                  IN r.code # "Ok" /\ Untouched(r)

\* the goods are shipped, and the seller's own confirmation and the
\* authority's cancellation are refused
C11_Witness ==
    \E e \in DOMAIN escrows :
        /\ escrows[e].status = "Shipped"
        /\ custody_balance(e) = escrows[e].amount
        /\ confirm_delivery_run(escrows[e].seller, escrows[e].seller, e, e,
                                holding(e, "USDC"), holding(escrows[e].seller, "USDC"),
                                TRUE).code = "UnauthorizedBuyer"
        /\ cancel_escrow_run("authority", e, e, holding("authority", "USDC"),
                             holding(e, "USDC"), TRUE).code = "UnauthorizedBuyer"

(* C12: resolve_dispute signed by anyone but the authority of the           *)
(* marketplace stored in the record fails, in every status, and moves       *)
(* nothing.                                                                 *)
C12_OnlyRecordAuthorityResolves ==
    \A e \in DOMAIN escrows :
        \A a \in Wallets \ {marketplaces[escrows[e].marketplace].authority},
           k \in DOMAIN marketplaces, d \in BOOLEAN, m \in Mints, fs \in BOOLEAN :
            LET v == vault_arg(e, a, d)
                r == resolve_dispute_run(a, k, escrows[e].buyer, escrows[e].seller, e, v,
                                         holding(escrows[e].buyer, m),
                                         holding(escrows[e].seller, m), holding(v, m),
                                         fs, TRUE)
            IN r.code # "Ok" /\ Untouched(r)

(* C13: dispute_transaction returns Ok only for the record's buyer or       *)
(* seller; signed by either in Funded or Shipped with a reason the length   *)
(* check accepts it sets the status to Disputed; signed by anyone else it   *)
(* fails, in every status, and changes nothing.                             *)
C13_OnlyPartiesDispute ==
    \A e \in DOMAIN escrows :
        \A u \in Wallets, t \in Reasons :
            LET r == dispute_transaction_run(u, e, t)
                party == u \in {escrows[e].buyer, escrows[e].seller}
            IN /\ r.code = "Ok" => party
               /\ (party /\ escrows[e].status \in {"Funded", "Shipped"} /\ len(t) <= 200)
                    => r.code = "Ok" /\ r.escrows[e].status = "Disputed"
               /\ ~party => r.code # "Ok" /\ Untouched(r)

\* the seller has opened a dispute
C13_Witness ==
    \E e \in DOMAIN escrows :
        /\ escrows[e].status = "Disputed"
        /\ result.op = "dispute_transaction"
        /\ result.signer = escrows[e].seller
        /\ dispute_transaction_run("authority", e, Str(23, 23)).code = "Unauthorized"

(* C14: the step of a successful fund_escrow takes exactly amount from the  *)
(* buyer's balance in the escrow's currency and adds exactly amount to what *)
(* the escrow's derived custody address holds, and writes Funded.           *)
C14_FundMovesAmountIntoCustody ==
    [][\A e \in DOMAIN escrows :
        (e \in DOMAIN escrows' /\ escrows[e].status = "Created"
            /\ escrows'[e].status # "Created" /\ escrows'[e].status # "Cancelled")
        => /\ escrows'[e].status = "Funded"
           /\ balance_in(lamports', tokens', escrows[e].buyer, escrows[e].currency)
                = balance_in(lamports, tokens, escrows[e].buyer, escrows[e].currency)
                    - escrows[e].amount
           /\ custody_in(escrows', lamports', tokens', e)
                = custody_balance(e) + escrows[e].amount]_vars

(* C15: the step of a successful confirm_delivery adds exactly amount to   *)
(* the record's seller's balance in the escrow's currency, leaves the       *)
(* custody address with nothing, and writes Completed.                      *)
C15_ConfirmPaysTheSeller ==
    [][\A e \in DOMAIN escrows :
        (e \in DOMAIN escrows' /\ escrows[e].status = "Shipped"
            /\ escrows'[e].status = "Completed")
        => /\ balance_in(lamports', tokens', escrows[e].seller, escrows[e].currency)
                = balance_in(lamports, tokens, escrows[e].seller, escrows[e].currency)
                    + escrows[e].amount
           /\ custody_in(escrows', lamports', tokens', e) = 0]_vars

(* C16: the step of a successful resolve_dispute takes exactly amount out  *)
(* of custody; when it writes Completed the record's seller has received    *)
(* it, when it writes Refunded the record's buyer has.                      *)
C16_ResolvePaysTheFavoured ==
    [][\A e \in DOMAIN escrows :
        (e \in DOMAIN escrows' /\ escrows[e].status = "Disputed"
            /\ escrows'[e].status # "Disputed")
        => LET to == IF escrows'[e].status = "Completed" THEN escrows[e].seller
                     ELSE escrows[e].buyer
           IN /\ escrows'[e].status \in {"Completed", "Refunded"}
              /\ (escrows'[e].status = "Completed") = (result'.arg = "favor_seller")
              /\ custody_in(escrows', lamports', tokens', e)
                    = custody_balance(e) - escrows[e].amount
              /\ balance_in(lamports', tokens', to, escrows[e].currency)
                    = balance_in(lamports, tokens, to, escrows[e].currency)
                        + escrows[e].amount]_vars

(* C17: once an escrow is Cancelled (after create -> cancel or create ->   *)
(* fund -> cancel) the buyer holds what it held before funding, in lamports *)
(* and in every mint, and the escrow's custody address holds nothing.       *)
C17_CancelRestoresTheBuyer ==
    \A e \in DOMAIN escrows :
        escrows[e].status = "Cancelled" =>
            /\ \A c \in CurrencyType :
                balance_in(lamports, tokens, escrows[e].buyer, c) = InitialFunds
            /\ custody_balance(e) = 0

(* C18: dispute_transaction by a party in Funded or Shipped succeeds for   *)
(* every reason of at most 200 characters and fails with                    *)
(* DisputeReasonTooLong, the status unchanged, for every reason of 201      *)
(* characters or more.                                                      *)
C18_ReasonOf200CharactersPasses ==
    \A e \in DOMAIN escrows :
        escrows[e].status \in {"Funded", "Shipped"} =>
            \A u \in {escrows[e].buyer, escrows[e].seller}, t \in Reasons :
                LET r == dispute_transaction_run(u, e, t)
                IN IF t.chars <= 200
                   THEN r.code = "Ok" /\ r.escrows[e].status = "Disputed"
                   ELSE r.code = "DisputeReasonTooLong"
                        /\ r.escrows[e].status = escrows[e].status

(* C19: mark_as_shipped by the seller in Funded succeeds when the tracking *)
(* id is absent or of at most 50 characters and fails with                  *)
(* TrackingIdTooLong, the status still Funded, when it is of 51 characters  *)
(* or more.                                                                 *)
C19_TrackingIdOf50CharactersPasses ==
    \A e \in DOMAIN escrows :
        escrows[e].status = "Funded" =>
            \A t \in TrackingIds :
                LET r == mark_as_shipped_run(escrows[e].seller, e, t)
                IN IF t = None \/ unwrap(t).chars <= 50
                   THEN r.code = "Ok" /\ r.escrows[e].status = "Shipped"
                   ELSE r.code = "TrackingIdTooLong" /\ r.escrows[e].status = "Funded"

(* C20: fund_escrow by the buyer on a SOL escrow in Created fails with     *)
(* InsufficientFunds, nothing moved and the status still Created, whenever  *)
(* the buyer holds less than amount plus the rent minimum; whichever way    *)
(* the build treats integer overflow.                                       *)
C20_ShortBuyerIsInsufficientFunds ==
    \A e \in DOMAIN escrows :
        (/\ escrows[e].currency = "SOL"
         /\ escrows[e].status = "Created"
         /\ lamports[escrows[e].buyer] < escrows[e].amount + RentMinimumBalance)
        => \A d \in BOOLEAN, w \in BOOLEAN :
            LET v == vault_arg(e, escrows[e].buyer, d)
                r == fund_escrow_run(escrows[e].buyer, e, v, None, None, TRUE, w)
            IN r.code = "InsufficientFunds" /\ Untouched(r)

(* C21: for a token-currency escrow, fund_escrow, confirm_delivery,         *)
(* cancel_escrow from Funded and resolve_dispute fail, leaving records and  *)
(* balances as they were, whenever the holding account of the source or of  *)
(* the destination for the escrow's currency does not exist; and no call    *)
(* creates a holding account.                                               *)
C21_UnprovisionedHoldingFails ==
    \A e \in DOMAIN escrows :
        escrows[e].currency # "SOL" =>
            LET c == escrows[e].currency
                buyer == escrows[e].buyer
                seller == escrows[e].seller
                custody_missing == holding(e, c) = None
            IN \A d \in BOOLEAN, m \in Mints :
               /\ LET vf == vault_arg(e, buyer, d)
                      r == fund_escrow_run(buyer, e, vf, holding(buyer, m), holding(vf, m),
                                           TRUE, FALSE)
                  IN /\ DOMAIN r.tokens = DOMAIN tokens
                     /\ (custody_missing \/ holding(buyer, c) = None)
                           => r.code # "Ok" /\ Untouched(r)
               /\ \A to \in {buyer, seller} :
                   LET vc == vault_arg(e, buyer, d)
                       r == confirm_delivery_run(buyer, seller, e, vc, holding(vc, m),
                                                 holding(to, m), TRUE)
                   IN /\ DOMAIN r.tokens = DOMAIN tokens
                      /\ (custody_missing \/ holding(seller, c) = None)
                            => r.code # "Ok" /\ Untouched(r)
               /\ LET vx == vault_arg(e, buyer, d)
                      r == cancel_escrow_run(buyer, e, vx, holding(buyer, m), holding(vx, m),
                                             TRUE)
                  IN /\ DOMAIN r.tokens = DOMAIN tokens
                     /\ (escrows[e].status = "Funded"
                            /\ (custody_missing \/ holding(buyer, c) = None))
                            => r.code # "Ok" /\ Untouched(r)
               /\ \A fs \in BOOLEAN :
                   LET a == marketplaces[escrows[e].marketplace].authority
                       vr == vault_arg(e, a, d)
                       r == resolve_dispute_run(a, escrows[e].marketplace, buyer, seller, e,
                                                vr, holding(buyer, m), holding(seller, m),
                                                holding(vr, m), fs, TRUE)
                   IN /\ DOMAIN r.tokens = DOMAIN tokens
                      /\ (custody_missing \/ holding(IF fs THEN seller ELSE buyer, c) = None)
                            => r.code # "Ok" /\ Untouched(r)

\* the balances of every lamport account and of every holding account of
\* mint c, by address
ledger(lam, tok, c) ==
    IF c = "SOL" THEN lam
    ELSE [a \in {x \in DOMAIN tok : tok[x].mint = c} |-> tok[a].amount]

(* C22: a step that changes an escrow's status moves value only in the     *)
(* escrow's own currency (lamports for SOL, the holding accounts of the     *)
(* currency's mint otherwise), and every balance it changes is changed by   *)
(* exactly amount.                                                          *)
C22_TransfersUseTheRecordCurrency ==
    [][\A e \in DOMAIN escrows :
        (e \in DOMAIN escrows' /\ escrows'[e].status # escrows[e].status)
        => /\ \A c \in CurrencyType \ {escrows[e].currency} :
                ledger(lamports', tokens', c) = ledger(lamports, tokens, c)
           /\ LET before == ledger(lamports, tokens, escrows[e].currency)
                  after == ledger(lamports', tokens', escrows[e].currency)
              IN \A a \in DOMAIN before :
                    after[a] \in {before[a], before[a] + escrows[e].amount,
                                  before[a] - escrows[e].amount}]_vars

(* C23: an escrow record is stored at the address derived from its          *)
(* (marketplace, buyer, product), so there is at most one per tuple; and    *)
(* create_escrow for a tuple that has a record fails, whatever the quantity *)
(* and whatever the record's status, leaving the record as it was.          *)
C23_OneRecordPerTuple ==
    \A e \in DOMAIN escrows :
        /\ e = escrow_address(escrows[e].marketplace, escrows[e].buyer, escrows[e].product)
        /\ \A q \in Quantities :
            LET r == create_escrow_run(escrows[e].buyer, escrows[e].marketplace,
                                       escrows[e].product, q)
            IN r.code # "Ok" /\ Untouched(r)

\* the escrow is Refunded and a new order of the same product by the same
\* buyer is refused
C23_Witness ==
    \E e \in DOMAIN escrows :
        /\ escrows[e].status = "Refunded"
        /\ create_escrow_run(escrows[e].buyer, escrows[e].marketplace,
                             escrows[e].product, 1).code = "AccountInUse"

(* C24: each lifecycle operation is one atomic step, so two issued          *)
(* together run in one of the two orders and the second is checked against  *)
(* the state the first left: of cancel_escrow and mark_as_shipped issued in *)
(* Funded, and of confirm_delivery and dispute_transaction issued in        *)
(* Shipped, whichever runs second fails with InvalidEscrowState; and after  *)
(* a step that takes funds out of an escrow's custody no lifecycle call on  *)
(* that escrow succeeds, so custody is released at most once.               *)
C24_SecondOfTwoSeesTheFirst ==
    [][\A e \in DOMAIN escrows :
        (e \in DOMAIN escrows' /\ escrows'[e].status # escrows[e].status)
        => LET buyer == escrows[e].buyer
               seller == escrows[e].seller
               was == escrows[e].status
           IN /\ (was = "Funded" /\ result'.op = "cancel_escrow")
                    => \A t \in TrackingIds :
                        (mark_as_shipped_run(seller, e, t).code = "InvalidEscrowState")'
              /\ (was = "Funded" /\ result'.op = "mark_as_shipped")
                    => \A d \in BOOLEAN, m \in Mints :
                        (cancel_escrow_run(buyer, e, vault_arg(e, buyer, d),
                                           holding(buyer, m),
                                           holding(vault_arg(e, buyer, d), m),
                                           TRUE).code = "InvalidEscrowState")'
              /\ (was = "Shipped" /\ result'.op = "confirm_delivery")
                    => \A u \in {buyer, seller}, t \in Reasons :
                        (dispute_transaction_run(u, e, t).code = "InvalidEscrowState")'
              /\ (was = "Shipped" /\ result'.op = "dispute_transaction")
                    => \A d \in BOOLEAN, m \in Mints :
                        (confirm_delivery_run(buyer, seller, e, vault_arg(e, buyer, d),
                                              holding(vault_arg(e, buyer, d), m),
                                              holding(seller, m),
                                              TRUE).code = "InvalidEscrowState")'
              /\ custody_in(escrows', lamports', tokens', e) < custody_balance(e)
                    => (\A c \in Calls(e) : c.code # "Ok")']_vars

\* the buyer confirmed a shipped order, custody is paid out to the seller,
\* and the seller's dispute, had it been issued together with the
\* confirmation, now fails
C24_Witness ==
    \E e \in DOMAIN escrows :
        /\ escrows[e].status = "Completed"
        /\ result.op = "confirm_delivery"
        /\ custody_balance(e) = 0
        /\ balance_in(lamports, tokens, escrows[e].seller, escrows[e].currency)
                = escrows[e].amount
        /\ dispute_transaction_run(escrows[e].seller, e, Str(23, 23)).code
                = "InvalidEscrowState"

(* C25: every record holds the bump stored at creation, the seeds the       *)
(* release operations sign with are those of the record's own address, and  *)
(* a release (confirm_delivery, cancel_escrow from Funded, resolve_dispute) *)
(* whose escrow_vault is any other address fails.                           *)
C25_ReleaseOnlyFromTheDerivedAddress ==
    \A e \in DOMAIN escrows :
        LET buyer == escrows[e].buyer
            seller == escrows[e].seller
        IN /\ escrows[e].bump = CanonicalBump
           /\ escrow_signer(e) = e
           /\ \A m \in Mints :
                /\ confirm_delivery_run(buyer, seller, e, buyer, holding(buyer, m),
                                        holding(seller, m), TRUE).code # "Ok"
                /\ escrows[e].status = "Funded"
                    => cancel_escrow_run(buyer, e, buyer, holding(buyer, m),
                                         holding(buyer, m), TRUE).code # "Ok"
                /\ \A k \in DOMAIN marketplaces, fs \in BOOLEAN :
                    resolve_dispute_run(marketplaces[k].authority, k, buyer, seller, e,
                                        marketplaces[k].authority, holding(buyer, m),
                                        holding(seller, m),
                                        holding(marketplaces[k].authority, m),
                                        fs, TRUE).code # "Ok"

(* C26: a record appears with created_at and updated_at both the current    *)
(* time; every step that changes its status (every successful lifecycle     *)
(* operation) sets updated_at to the current time; no other step changes    *)
(* updated_at; so updated_at never decreases and created_at <= updated_at;  *)
(* and a lifecycle call that fails leaves updated_at as it was.             *)
C26_FailedCallKeepsUpdatedAt(e) ==
    LET kept(r) == r.code # "Ok" => r.escrows[e].updated_at = escrows[e].updated_at
        buyer == escrows[e].buyer
        seller == escrows[e].seller
    IN /\ \A s \in Wallets, t \in TrackingIds : kept(mark_as_shipped_run(s, e, t))
       /\ \A u \in Wallets, t \in Reasons : kept(dispute_transaction_run(u, e, t))
       /\ \A b \in Wallets, m \in Mints, h \in BOOLEAN :
            /\ kept(fund_escrow_run(b, e, e, holding(b, m), holding(e, m), h, FALSE))
            /\ kept(confirm_delivery_run(b, seller, e, e, holding(e, m),
                                         holding(seller, m), h))
            /\ kept(cancel_escrow_run(b, e, e, holding(b, m), holding(e, m), h))
            /\ \A k \in DOMAIN marketplaces, fs \in BOOLEAN :
                kept(resolve_dispute_run(b, k, buyer, seller, e, e, holding(buyer, m),
                                         holding(seller, m), holding(e, m), fs, h))

C26_StepRefreshesUpdatedAt ==
    \A e \in DOMAIN escrows' :
        /\ escrows'[e].created_at <= escrows'[e].updated_at
        /\ escrows'[e].updated_at <= clock'
        /\ IF e \notin DOMAIN escrows
           THEN escrows'[e].created_at = clock /\ escrows'[e].updated_at = clock
           ELSE /\ escrows'[e].updated_at >= escrows[e].updated_at
                /\ IF escrows'[e].status # escrows[e].status
                   THEN escrows'[e].updated_at = clock /\ clock' = clock
                   ELSE escrows'[e].updated_at = escrows[e].updated_at

C26_UpdatedAtIsRefreshed ==
    /\ [](\A e \in DOMAIN escrows : C26_FailedCallKeepsUpdatedAt(e))
    /\ [][C26_StepRefreshesUpdatedAt]_vars

\* an order placed at one time and shipped at a later one
C26_Witness ==
    \E e \in DOMAIN escrows :
        /\ escrows[e].status = "Shipped"
        /\ escrows[e].updated_at > escrows[e].created_at
        /\ escrows[e].updated_at = clock

\* C27  No escrow lifecycle instruction changes what the reputation program
\* or the marketplace hold: on every step that creates an escrow or changes
\* one, and so on the steps of confirm_delivery and resolve_dispute, the
\* reputation accounts with their sale and purchase counters, the products
\* with their price, inventory and status, and the marketplaces are as before.
C27_EscrowStepKeepsCollaborators ==
    escrows' # escrows
    => /\ result'.op \in {"create_escrow", "fund_escrow", "mark_as_shipped",
                          "confirm_delivery", "dispute_transaction",
                          "cancel_escrow", "resolve_dispute"}
       /\ reputations' = reputations
       /\ products' = products
       /\ marketplaces' = marketplaces

C28_BuyerStep(e) ==
    LET c == escrows[e].currency
        buyer_before == balance_in(lamports, tokens, escrows[e].buyer, c)
        buyer_after == balance_in(lamports', tokens', escrows[e].buyer, c)
        seller_before == balance_in(lamports, tokens, escrows[e].seller, c)
        seller_after == balance_in(lamports', tokens', escrows[e].seller, c)
        custody_before == custody_balance(e)
        custody_after == custody_in(escrows', lamports', tokens', e)
    IN /\ (result'.signer = escrows[e].buyer /\ escrows'[e] # escrows[e])
            => /\ buyer_after <= buyer_before
               /\ custody_after < custody_before
                    => seller_after = seller_before + (custody_before - custody_after)
       /\ buyer_after > buyer_before
            => /\ result'.op = "resolve_dispute"
               /\ result'.arg = "favor_buyer"
               /\ escrows'[e].status = "Refunded"
               /\ \E k \in DOMAIN marketplaces : result'.signer = marketplaces[k].authority

C28_BuyerAloneNeverRecovers ==
    [][\A e \in DOMAIN escrows :
        (e \in DOMAIN escrows' /\ escrows[e].status \in {"Shipped", "Disputed"})
            => C28_BuyerStep(e)]_vars

\* C29  mark_as_shipped, dispute_transaction and cancel_escrow from Created
\* move no value: on the step of each, every lamport balance and every
\* holding account, and so the buyer's, the seller's and the custody balance,
\* is what it was, and the record differs in status and updated_at only.
C29_NoValueStep(e) ==
    LET shipped == /\ escrows[e].status = "Funded"
                   /\ escrows'[e].status = "Shipped"
                   /\ result'.op = "mark_as_shipped"
        disputed == /\ escrows[e].status \in {"Funded", "Shipped"}
                    /\ escrows'[e].status = "Disputed"
                    /\ result'.op = "dispute_transaction"
        cancelled == /\ escrows[e].status = "Created"
                     /\ escrows'[e].status = "Cancelled"
                     /\ result'.op = "cancel_escrow"
    IN /\ (shipped \/ disputed \/ cancelled)
            => /\ lamports' = lamports
               /\ tokens' = tokens
               /\ custody_in(escrows', lamports', tokens', e) = custody_balance(e)
               /\ escrows'[e] = [escrows[e] EXCEPT !.status = escrows'[e].status,
                                                  !.updated_at = escrows'[e].updated_at]
       /\ result'.op \in {"mark_as_shipped", "dispute_transaction"} /\ escrows' # escrows
            => shipped \/ disputed
       /\ (escrows[e].status = "Created" /\ escrows'[e].status = "Cancelled") => cancelled

C29_ShipDisputeCancelMoveNoValue ==
    [][\A e \in DOMAIN escrows : e \in DOMAIN escrows' => C29_NoValueStep(e)]_vars

\* a funded escrow was marked as shipped: the amount is still in custody and
\* the seller has received nothing
C29_Witness ==
    \E e \in DOMAIN escrows :
        /\ result.op = "mark_as_shipped"
        /\ escrows[e].status = "Shipped"
        /\ escrows[e].amount > 0
        /\ custody_balance(e) = escrows[e].amount
        /\ balance_in(lamports, tokens, escrows[e].seller, escrows[e].currency) = 0

(* C30: value is conserved.  For every escrow, what the buyer, the seller  *)
(* and custody hold together in the escrow's currency is what the buyer    *)
(* started with; under a terminal status custody holds nothing and the     *)
(* whole amount is with the seller (Completed) or back with the buyer       *)
(* (Cancelled, Refunded), no fee taken.                                     *)
C30_ValueIsConserved ==
    \A e \in DOMAIN escrows :
        LET c == escrows[e].currency
            buyer_balance == balance_in(lamports, tokens, escrows[e].buyer, c)
            seller_balance == balance_in(lamports, tokens, escrows[e].seller, c)
        IN /\ buyer_balance + seller_balance + custody_balance(e) = InitialFunds
           /\ escrows[e].status \in Terminal
                => /\ custody_balance(e) = 0
                   /\ IF escrows[e].status = "Completed"
                      THEN /\ seller_balance = escrows[e].amount
                           /\ buyer_balance = InitialFunds - escrows[e].amount
                      ELSE /\ seller_balance = 0
                           /\ buyer_balance = InitialFunds

(* C31: fund_escrow of a SOL escrow compares the buyer's balance with the *)
(* true sum amount + minimum balance.  Where that sum exceeds u64::MAX and  *)
(* the buyer holds less than amount, the balance check never passes on a    *)
(* wrapped sum, in any build: the call fails at the check or before it, and  *)
(* no account changes.                                                      *)
C31_FundingCheckDoesNotWrap ==
    \A e \in DOMAIN escrows :
        (/\ escrows[e].currency = "SOL"
         /\ escrows[e].status = "Created"
         /\ escrows[e].amount + RentMinimumBalance > U64_MAX
         /\ lamports[escrows[e].buyer] < escrows[e].amount)
        => \A wraps \in BOOLEAN :
            LET r == fund_escrow_run(escrows[e].buyer, e, e, None, None, TRUE, wraps)
            IN /\ r.code \in {"InsufficientFunds", "ProgramFailedToComplete"}
               /\ Untouched(r)

(* ---------------- the lifecycle under fair scheduling ------------------ *)

\* a successful lifecycle instruction on an existing escrow: a step of Next
\* that changes the escrow's status
LifecycleStep ==
    /\ Next
    /\ \E e \in DOMAIN escrows : e \in DOMAIN escrows' /\ escrows'[e].status # escrows[e].status

\* transactions that can succeed are eventually submitted: while some
\* lifecycle instruction stays enabled, one is eventually taken
FairSpec == Spec /\ WF_vars(LifecycleStep)

\* the addresses create_escrow can derive for the listed products
EscrowAddresses ==
    {escrow_address(Listing, "buyer", product_address(Listing, "seller", i)) : i \in ListedIndexes}

\* how far along the status graph a status is
StatusRank(status) ==
    CASE status = "Created" -> 0
      [] status = "Funded" -> 1
      [] status = "Shipped" -> 2
      [] status = "Disputed" -> 3
      [] OTHER -> 4

C32_StatusOnlyAdvances ==
    \A e \in DOMAIN escrows :
        (e \in DOMAIN escrows' /\ escrows'[e].status # escrows[e].status)
            => StatusRank(escrows'[e].status) > StatusRank(escrows[e].status)

C32_Settled(e) ==
    /\ e \in DOMAIN escrows
    /\ escrows[e].status \in Terminal
    /\ custody_balance(e) = 0

(* C32: the lifecycle always terminates.  A status change always moves      *)
(* forward along the graph, so an escrow changes status at most 4 times;    *)
(* and when lifecycle instructions that can succeed are eventually taken,   *)
(* every escrow created eventually is Completed, Cancelled or Refunded with *)
(* nothing left in custody.                                                 *)
C32_LifecycleTerminates ==
    /\ [][C32_StatusOnlyAdvances]_vars
    /\ \A e \in EscrowAddresses : (e \in DOMAIN escrows) ~> C32_Settled(e)

====
